---------------------------- MODULE Spec2Model ----------------------------
(***************************************************************************)
(* A model of PyXA/apps/Preview.py: the typed handles PyXA puts over the   *)
(* scripting bridge of Preview.app.                                        *)
(*                                                                         *)
(* The remote application (its open documents, its window, its own         *)
(* attributes) is the only state there is.  Every method of the module is  *)
(* one action: it issues requests to the bridge, which are recorded, and   *)
(* returns a value, which is recorded too.  Calls are synchronous: the     *)
(* caller takes the result of one call (Return) before anything else       *)
(* happens.  The remote application changes on its own between two calls   *)
(* (the Remote... actions).                                                *)
(***************************************************************************)
EXTENDS Naturals, Sequences, FiniteSets

\* The largest number of documents the remote application has open.
MaxDocs == 2

(***************************************************************************)
(* Python and Objective-C values.  Each type has fields of its own, so     *)
(* that two values of different types are different and never confused.    *)
(***************************************************************************)
PyNone == [t |-> "None"]

PyStr(s) == [t |-> "str", s |-> s]

PyBool(b) == [t |-> "bool", b |-> b]

\* The builtin class object `str' (what line 209 hands to XAPath).
PyStrType == [t |-> "type", cls |-> "str"]

PyRaise(e) == [t |-> "raise", exc |-> e]

\* An NSURL file reference to the filesystem location p.
NSURL(p) == [t |-> "NSURL", path |-> p]

\* A reference to the id-th document of the remote application (an
\* SBObject); 0 refers to no document.
SBObject(id) == [t |-> "SBObject", id |-> id]

\* AppKit.NSURL.alloc().initFileURLWithPath_(s): the file URL of the path s.
initFileURLWithPath_(s) == NSURL(s.s)

\* Python's str(x): the text of a value.  An NSURL prints as its absolute
\* string, which carries the file:// scheme; a class prints as <class '..'>.
str(x) ==
  CASE x.t = "str" -> x
    [] x.t = "NSURL" -> PyStr("file://" \o x.path)
    [] x.t = "type" -> PyStr("<class '" \o x.cls \o "'>")

(***************************************************************************)
(* XABase.XAPath(x): the path value type.  A string becomes the file URL   *)
(* of that path, a URL is wrapped as it is.  What the constructor does     *)
(* with a value that is neither is not fixed by anything at hand: it       *)
(* either raises or wraps the value, and both outcomes are kept.           *)
(***************************************************************************)
XAPathOf(url) == [t |-> "XAPath", xa_elem |-> url]

XAPath(x) ==
  CASE x.t = "str" -> {XAPathOf(initFileURLWithPath_(x))}
    [] x.t = "NSURL" -> {XAPathOf(x)}
    [] OTHER -> {PyRaise("AttributeError"), XAPathOf(x)}

\* The one result of XAPath on a string or a URL.
XAPathValue(x) == CHOOSE p \in XAPath(x) : TRUE

(***************************************************************************)
(* The values the model draws from.                                        *)
(***************************************************************************)
Names == {"Example1.pdf", "Example2.pdf"}

QueryNames == Names \cup {"Missing.pdf"}

Locations == {"/x/a.pdf", "/x/b.pdf"}

\* What the remote application answers for a document's path: a POSIX path
\* string, the text of a file URL, or a file URL object.
RemotePaths == {PyStr("/x/a.pdf"), PyStr("file:///x/a.pdf"), NSURL("/x/b.pdf")}

VARIABLES
  app,    \* the remote application: [frontmost, name, version]
  win,    \* the remote window: [document, floating, modal, titled]
  docs,   \* the remote application's open documents, in order
  last    \* the module's most recent call: [op, self, arg, ret, log]

vars == <<app, win, docs, last>>

\* No call of the module whose result the caller has not taken yet.
Idle == [op |-> "none", self |-> 0, arg |-> PyNone, ret |-> PyNone, log |-> <<>>]

Call(op, self, arg, r) ==
  [op |-> op, self |-> self, arg |-> arg, ret |-> r.ret, log |-> r.log]

\* A remote document: name and modified as the bridge returns them, path as
\* the raw value the bridge returns.
Document(n, p, m) ==
  [name |-> PyStr(n), path |-> p, modified |-> PyBool(m)]

\* The references to the open documents.
OpenIds == 1..Len(docs)

Init ==
  /\ app = [frontmost |-> PyBool(FALSE), name |-> PyStr("Preview"),
            version |-> PyStr("11.0")]
  /\ win = [document |-> 0, floating |-> PyBool(FALSE),
            modal |-> PyBool(FALSE), titled |-> PyBool(TRUE)]
  /\ docs = <<>>
  /\ last = Idle

(***************************************************************************)
(* The scripting bridge: the four requests every call reduces to.          *)
(***************************************************************************)
AppRef == [t |-> "SBApplication"]

WindowRef == [t |-> "SBWindow"]

DocumentsRef == [t |-> "SBElementArray", of |-> "documents"]

Get(target, attr) == [req |-> "get", target |-> target, attr |-> attr]

GetEach(coll, attr) == [req |-> "getEach", coll |-> coll, attr |-> attr]

Set(target, attr, value) ==
  [req |-> "set", target |-> target, attr |-> attr, value |-> value]

Invoke(target, action, args) ==
  [req |-> "invoke", target |-> target, action |-> action, args |-> args]

\* The properties dictionary the remote application answers for a document.
DocumentProperties(d) ==
  [t |-> "dict", name |-> d.name, path |-> d.path, modified |-> d.modified]

\* The properties dictionary the remote application answers for the window.
WindowProperties ==
  [t |-> "dict", document |-> SBObject(win.document), floating |-> win.floating,
   modal |-> win.modal, titled |-> win.titled]

\* The remote document's value for the attribute sel.
Attr(d, sel) ==
  CASE sel = "name" -> d.name
    [] sel = "path" -> d.path
    [] sel = "modified" -> d.modified
    [] sel = "properties" -> DocumentProperties(d)

\* The open document a reference refers to.
DocById(id) == docs[id]

\* A get-attribute request on one remote object and its answer.
sbGet(target, attr, value) == [ret |-> value, log |-> <<Get(target, attr)>>]

\* xa_elem.arrayByApplyingSelector_(sel) on the documents: one batched
\* request, answered with the attribute of every element in element order.
arrayByApplyingSelector_(sel) ==
  [ret |-> [i \in 1..Len(docs) |-> Attr(docs[i], sel)],
   log |-> <<GetEach(DocumentsRef, sel)>>]

\* XAObject.set_property(name, value): one set-attribute request.
set_property(target, attr, value) ==
  [ret |-> PyNone, log |-> <<Set(target, attr, value)>>]

\* XAObject._new_element(obj, XAPreviewDocument): the typed handle of obj.
XAPreviewDocument(obj) == [t |-> "XAPreviewDocument", xa_elem |-> obj]

\* The set-attribute requests of a call, as the remote application sees them.
SetsOn(log, target, attr) ==
  {k \in 1..Len(log) : /\ log[k].req = "set"
                       /\ log[k].target = target
                       /\ log[k].attr = attr}

SetValue(log, target, attr) ==
  log[CHOOSE k \in SetsOn(log, target, attr) : TRUE].value

\* The remote application after the requests of a call: each attribute that
\* was set holds the value it was set to, nothing else changes.
RemoteApplies(log) ==
  /\ app' = IF SetsOn(log, AppRef, "frontmost") # {}
              THEN [app EXCEPT !.frontmost = SetValue(log, AppRef, "frontmost")]
              ELSE app
  /\ win' = IF /\ SetsOn(log, WindowRef, "document") # {}
               /\ SetValue(log, WindowRef, "document").t = "SBObject"
              THEN [win EXCEPT !.document = SetValue(log, WindowRef, "document").id]
              ELSE win
  /\ docs' = [i \in 1..Len(docs) |->
               LET d == docs[i]
                   n == IF SetsOn(log, SBObject(i), "name") # {}
                          THEN SetValue(log, SBObject(i), "name") ELSE d.name
                   p == IF SetsOn(log, SBObject(i), "path") # {}
                          THEN SetValue(log, SBObject(i), "path") ELSE d.path
               IN [d EXCEPT !.name = n, !.path = p]]

\* A call of the module: its requests reach the remote application and the
\* call and its result are recorded.
Does(op, self, arg, r) ==
  /\ last = Idle
  /\ last' = Call(op, self, arg, r)
  /\ RemoteApplies(r.log)

(***************************************************************************)
(* The remote application changing on its own.                             *)
(***************************************************************************)
RemoteOpen ==
  /\ last = Idle
  /\ Len(docs) < MaxDocs
  /\ \E n \in Names, p \in RemotePaths :
       docs' = Append(docs, Document(n, p, FALSE))
  /\ UNCHANGED <<app, win, last>>

\* Closing a document moves the later ones up; a window showing the closed
\* document shows none.
RemoteClose ==
  /\ last = Idle
  /\ \E i \in 1..Len(docs) :
       /\ docs' = [k \in 1..(Len(docs) - 1) |->
                    IF k < i THEN docs[k] ELSE docs[k + 1]]
       /\ win' = [win EXCEPT !.document =
                    IF @ = i THEN 0 ELSE IF @ > i THEN @ - 1 ELSE @]
  /\ UNCHANGED <<app, last>>

RemoteEdit ==
  /\ last = Idle
  /\ \E i \in 1..Len(docs), n \in Names, p \in RemotePaths, m \in BOOLEAN :
       docs' = [docs EXCEPT ![i] = Document(n, p, m)]
  /\ docs' # docs
  /\ UNCHANGED <<app, win, last>>

RemoteActivate ==
  /\ last = Idle
  /\ app' = [app EXCEPT !.frontmost = PyBool(~app.frontmost.b)]
  /\ UNCHANGED <<win, docs, last>>

RemoteWindow ==
  /\ last = Idle
  /\ \E id \in OpenIds \cup {0} : win' = [win EXCEPT !.document = id]
  /\ win' # win
  /\ UNCHANGED <<app, docs, last>>

\* The caller takes the result of the call.
Return ==
  /\ last # Idle
  /\ last' = Idle
  /\ UNCHANGED <<app, win, docs>>

(***************************************************************************)
(* XAPreviewApplication                                                    *)
(***************************************************************************)
XAPreviewApplication_frontmost == sbGet(AppRef, "frontmost", app.frontmost)

XAPreviewApplication_frontmost_setter(frontmost) ==
  set_property(AppRef, "frontmost", frontmost)

XAPreviewApplication_name == sbGet(AppRef, "name", app.name)

XAPreviewApplication_version == sbGet(AppRef, "version", app.version)

\* A variant of print that forwards the path as it was given.
XAPreviewApplication_print_unconverted(path, show_prompt) ==
  [ret |-> PyNone,
   log |-> <<Invoke(AppRef, "print_printDialog_withProperties_",
                    <<path, show_prompt, PyNone>>)>>]

\* print(path, show_prompt): a string path becomes a file URL first.
XAPreviewApplication_print(path, show_prompt) ==
  LET url == IF path.t = "str" THEN initFileURLWithPath_(path) ELSE path
  IN [ret |-> PyNone,
      log |-> <<Invoke(AppRef, "print_printDialog_withProperties_",
                       <<url, show_prompt, PyNone>>)>>]

\* documents(): the live list of the open documents, wrapped.
XAPreviewApplication_documents ==
  [ret |-> [t |-> "XAPreviewDocumentList", xa_elem |-> DocumentsRef],
   log |-> <<Get(AppRef, "documents")>>]

\* The paths print is called with: strings and URLs.
PrintPaths == {PyStr(l) : l \in Locations} \cup {NSURL(l) : l \in Locations}

AppGetFrontmost == Does("app.frontmost", 0, PyNone, XAPreviewApplication_frontmost)

AppSetFrontmost ==
  \E b \in BOOLEAN :
    Does("app.frontmost=", 0, PyBool(b),
         XAPreviewApplication_frontmost_setter(PyBool(b)))

AppGetName == Does("app.name", 0, PyNone, XAPreviewApplication_name)

AppGetVersion == Does("app.version", 0, PyNone, XAPreviewApplication_version)

AppPrint ==
  \E path \in PrintPaths, show_prompt \in BOOLEAN :
    Does("app.print", 0, <<path, PyBool(show_prompt)>>,
         XAPreviewApplication_print(path, PyBool(show_prompt)))

AppDocuments == Does("app.documents", 0, PyNone, XAPreviewApplication_documents)

(***************************************************************************)
(* XAPreviewWindow                                                         *)
(***************************************************************************)
XAPreviewWindow_properties == sbGet(WindowRef, "properties", WindowProperties)

XAPreviewWindow_document ==
  sbGet(WindowRef, "document", XAPreviewDocument(SBObject(win.document)))

\* A variant of the document setter that sends the handle, not its object.
XAPreviewWindow_document_setter_wrapper(document) ==
  set_property(WindowRef, "document", document)

XAPreviewWindow_document_setter(document) ==
  set_property(WindowRef, "document", document.xa_elem)

XAPreviewWindow_floating == sbGet(WindowRef, "floating", win.floating)

XAPreviewWindow_modal == sbGet(WindowRef, "modal", win.modal)

XAPreviewWindow_titled == sbGet(WindowRef, "titled", win.titled)

WindowGetProperties ==
  Does("window.properties", 0, PyNone, XAPreviewWindow_properties)

WindowGetDocument == Does("window.document", 0, PyNone, XAPreviewWindow_document)

\* window.document = D, for a handle D of an open document.
WindowSetDocument ==
  \E id \in OpenIds :
    Does("window.document=", 0, XAPreviewDocument(SBObject(id)),
         XAPreviewWindow_document_setter(XAPreviewDocument(SBObject(id))))

WindowGetFloating == Does("window.floating", 0, PyNone, XAPreviewWindow_floating)

WindowGetModal == Does("window.modal", 0, PyNone, XAPreviewWindow_modal)

WindowGetTitled == Does("window.titled", 0, PyNone, XAPreviewWindow_titled)

(***************************************************************************)
(* XAPreviewDocumentList: the collection of the open documents.            *)
(***************************************************************************)
XAPreviewDocumentList_properties == arrayByApplyingSelector_("properties")

\* A variant of name() that asks for another attribute.
XAPreviewDocumentList_name_other_selector ==
  arrayByApplyingSelector_("properties")

\* A variant of name() that asks each element for its name in turn.
XAPreviewDocumentList_name_per_element ==
  [ret |-> [i \in 1..Len(docs) |-> docs[i].name],
   log |-> [i \in 1..Len(docs) |-> Get(SBObject(i), "name")]]

XAPreviewDocumentList_name == arrayByApplyingSelector_("name")

\* path(): the batched answer, each raw value wrapped into an XAPath.
XAPreviewDocumentList_path ==
  LET ls == arrayByApplyingSelector_("path")
  IN [ret |-> [i \in 1..Len(ls.ret) |-> XAPathValue(ls.ret[i])], log |-> ls.log]

XAPreviewDocumentList_modified == arrayByApplyingSelector_("modified")

\* XAList.by_property(property, value): the handle of the first element
\* whose attribute equals the value, or None.
by_property(property, value) ==
  LET hits == {i \in 1..Len(docs) : Attr(docs[i], property) = value}
      first == CHOOSE i \in hits : \A j \in hits : i <= j
  IN [ret |-> IF hits = {} THEN PyNone
                           ELSE XAPreviewDocument(SBObject(first)),
      log |-> <<GetEach(DocumentsRef, property)>>]

XAPreviewDocumentList_by_properties(properties) ==
  by_property("properties", properties)

\* A variant of by_name that looks the name up in another attribute.
XAPreviewDocumentList_by_name_other_property(name) == by_property("path", name)

XAPreviewDocumentList_by_name(name) == by_property("name", name)

\* by_path(path): for a string, line 209 builds the XAPath from the class
\* `str', not from the string.  The set of the outcomes of the call.
XAPreviewDocumentList_by_path(path) ==
  LET paths == IF path.t = "str" THEN XAPath(PyStrType) ELSE {path}
  IN {IF p.t = "raise" THEN [ret |-> p, log |-> <<>>]
                       ELSE by_property("path", str(p.xa_elem)) : p \in paths}

XAPreviewDocumentList_by_modified(modified) == by_property("modified", modified)

\* A variant of the export that returns the path values themselves.
XAPreviewDocumentList_get_clipboard_representation_paths ==
  XAPreviewDocumentList_path

\* get_clipboard_representation(): the file URL of each path of path().
XAPreviewDocumentList_get_clipboard_representation ==
  LET paths == XAPreviewDocumentList_path
  IN [ret |-> [i \in 1..Len(paths.ret) |-> paths.ret[i].xa_elem],
      log |-> paths.log]

\* The properties dictionaries a lookup is made with.
QueryProperties ==
  {DocumentProperties(Document(n, p, m)) :
     n \in Names, p \in RemotePaths, m \in BOOLEAN}

\* The paths a lookup is made with: strings, and the path values of them.
QueryPaths ==
  {PyStr(l) : l \in Locations} \cup {XAPathValue(PyStr(l)) : l \in Locations}

ListProperties ==
  Does("list.properties", 0, PyNone, XAPreviewDocumentList_properties)

ListName == Does("list.name", 0, PyNone, XAPreviewDocumentList_name)

ListPath == Does("list.path", 0, PyNone, XAPreviewDocumentList_path)

ListModified == Does("list.modified", 0, PyNone, XAPreviewDocumentList_modified)

ListByProperties ==
  \E properties \in QueryProperties :
    Does("list.by_properties", 0, properties,
         XAPreviewDocumentList_by_properties(properties))

ListByName ==
  \E n \in QueryNames :
    Does("list.by_name", 0, PyStr(n), XAPreviewDocumentList_by_name(PyStr(n)))

ListByPath ==
  \E path \in QueryPaths :
    \E r \in XAPreviewDocumentList_by_path(path) :
      Does("list.by_path", 0, path, r)

ListByModified ==
  \E b \in BOOLEAN :
    Does("list.by_modified", 0, PyBool(b),
         XAPreviewDocumentList_by_modified(PyBool(b)))

ListClipboard ==
  Does("list.get_clipboard_representation", 0, PyNone,
       XAPreviewDocumentList_get_clipboard_representation)

(***************************************************************************)
(* XAPreviewDocument: the handle of the open document with the given id.   *)
(***************************************************************************)
XAPreviewDocument_properties(id) ==
  sbGet(SBObject(id), "properties", DocumentProperties(DocById(id)))

XAPreviewDocument_name(id) == sbGet(SBObject(id), "name", DocById(id).name)

XAPreviewDocument_name_setter(id, name) ==
  set_property(SBObject(id), "name", name)

XAPreviewDocument_path(id) ==
  sbGet(SBObject(id), "path", XAPathValue(DocById(id).path))

XAPreviewDocument_path_setter(id, path) ==
  set_property(SBObject(id), "path", path.xa_elem)

\* A variant of modified that answers from the value the document had when
\* it was opened, without asking the remote application.
XAPreviewDocument_modified_cached(id) == [ret |-> PyBool(FALSE), log |-> <<>>]

XAPreviewDocument_modified(id) ==
  sbGet(SBObject(id), "modified", DocById(id).modified)

\* print(print_properties, show_dialog): returns the handle itself.
XAPreviewDocument_print(id, print_properties, show_dialog) ==
  LET props == IF print_properties = PyNone THEN [t |-> "dict"]
                                            ELSE print_properties
  IN [ret |-> XAPreviewDocument(SBObject(id)),
      log |-> <<Invoke(SBObject(id), "print_printDialog_withProperties_",
                       <<SBObject(id), show_dialog, props>>)>>]

\* A variant of save with the arguments of saveAs_in_ exchanged.
XAPreviewDocument_save_exchanged(id, file_path) ==
  [ret |-> PyNone,
   log |-> <<Invoke(SBObject(id), "saveAs_in_", <<file_path, PyNone>>)>>]

\* save(file_path): saveAs_in_(None, file_path).
XAPreviewDocument_save(id, file_path) ==
  [ret |-> PyNone,
   log |-> <<Invoke(SBObject(id), "saveAs_in_", <<PyNone, file_path>>)>>]

\* get_clipboard_representation(): self.path.xa_elem.
XAPreviewDocument_get_clipboard_representation(id) ==
  LET path == XAPreviewDocument_path(id)
  IN [ret |-> path.ret.xa_elem, log |-> path.log]

\* The print settings print is called with.
PrintProperties == {PyNone, [t |-> "dict", copies |-> 2]}

\* The paths the path setter is called with.
SetPaths == {XAPathValue(p) : p \in {NSURL("/x/b.pdf"), PyStr("/x/b.pdf")}}

\* The destinations save is called with.
SavePaths == {PyNone} \cup {PyStr(l) : l \in Locations}

DocGetProperties ==
  \E id \in OpenIds :
    Does("document.properties", id, PyNone, XAPreviewDocument_properties(id))

DocGetName ==
  \E id \in OpenIds :
    Does("document.name", id, PyNone, XAPreviewDocument_name(id))

DocSetName ==
  \E id \in OpenIds, n \in Names :
    Does("document.name=", id, PyStr(n),
         XAPreviewDocument_name_setter(id, PyStr(n)))

DocGetPath ==
  \E id \in OpenIds :
    Does("document.path", id, PyNone, XAPreviewDocument_path(id))

DocSetPath ==
  \E id \in OpenIds, path \in SetPaths :
    Does("document.path=", id, path, XAPreviewDocument_path_setter(id, path))

DocGetModified ==
  \E id \in OpenIds :
    Does("document.modified", id, PyNone, XAPreviewDocument_modified(id))

DocPrint ==
  \E id \in OpenIds, pp \in PrintProperties, show_dialog \in BOOLEAN :
    Does("document.print", id, <<pp, PyBool(show_dialog)>>,
         XAPreviewDocument_print(id, pp, PyBool(show_dialog)))

DocSave ==
  \E id \in OpenIds, file_path \in SavePaths :
    Does("document.save", id, file_path, XAPreviewDocument_save(id, file_path))

DocClipboard ==
  \E id \in OpenIds :
    Does("document.get_clipboard_representation", id, PyNone,
         XAPreviewDocument_get_clipboard_representation(id))

(***************************************************************************)
(* The specification.                                                      *)
(***************************************************************************)
Remote ==
  \/ RemoteOpen
  \/ RemoteClose
  \/ RemoteEdit
  \/ RemoteActivate
  \/ RemoteWindow

Application ==
  \/ AppGetFrontmost
  \/ AppSetFrontmost
  \/ AppGetName
  \/ AppGetVersion
  \/ AppPrint
  \/ AppDocuments

Window ==
  \/ WindowGetProperties
  \/ WindowGetDocument
  \/ WindowSetDocument
  \/ WindowGetFloating
  \/ WindowGetModal
  \/ WindowGetTitled

DocumentList ==
  \/ ListProperties
  \/ ListName
  \/ ListPath
  \/ ListModified
  \/ ListByProperties
  \/ ListByName
  \/ ListByPath
  \/ ListByModified
  \/ ListClipboard

Document_ ==
  \/ DocGetProperties
  \/ DocGetName
  \/ DocSetName
  \/ DocGetPath
  \/ DocSetPath
  \/ DocGetModified
  \/ DocPrint
  \/ DocSave
  \/ DocClipboard

Next == Remote \/ Application \/ Window \/ DocumentList \/ Document_ \/ Return

Spec == Init /\ [][Next]_vars

(***************************************************************************)
(* Properties.                                                             *)
(***************************************************************************)
Projections == {"list.properties", "list.name", "list.path", "list.modified"}

Lookups ==
  {"list.by_properties", "list.by_name", "list.by_path", "list.by_modified"}

\* The value the handle of the i-th document returns for an attribute.
HandleValue(op, i) ==
  CASE op = "list.properties" -> XAPreviewDocument_properties(i).ret
    [] op = "list.name" -> XAPreviewDocument_name(i).ret
    [] op = "list.path" -> XAPreviewDocument_path(i).ret
    [] op = "list.modified" -> XAPreviewDocument_modified(i).ret

\* C1: a projection of the collection (properties(), name(), path(),
\* modified()) is as long as the collection, and its i-th value is the value
\* of that attribute of the i-th document handle.
C1_ProjectionMatchesHandles ==
  last.op \in Projections =>
    /\ Len(last.ret) = Len(docs)
    /\ \A i \in 1..Len(docs) : last.ret[i] = HandleValue(last.op, i)

\* A projection of two documents that differ in the projected attribute.
C1_Witness ==
  /\ last.op \in Projections
  /\ Len(docs) = 2
  /\ last.ret[1] # last.ret[2]
  /\ last.ret[1] = HandleValue(last.op, 1)
  /\ last.ret[2] = HandleValue(last.op, 2)

\* The documents named x, in collection order.
Named(x) == {i \in 1..Len(docs) : docs[i].name = x}

\* C2: by_name(x) returns the first document named x, in collection order,
\* when there is one, and None when there is none.
C2_ByNameFirstOrNone ==
  last.op = "list.by_name" =>
    IF Named(last.arg) = {}
      THEN last.ret = PyNone
      ELSE /\ last.ret.t = "XAPreviewDocument"
           /\ last.ret.xa_elem.id \in Named(last.arg)
           /\ \A j \in Named(last.arg) : last.ret.xa_elem.id <= j

\* by_name("Example2.pdf") on ["Example1.pdf", "Example2.pdf"] is the second.
C2_Witness ==
  /\ last.op = "list.by_name"
  /\ Len(docs) = 2
  /\ docs[1].name = PyStr("Example1.pdf")
  /\ docs[2].name = PyStr("Example2.pdf")
  /\ last.arg = PyStr("Example2.pdf")
  /\ last.ret = XAPreviewDocument(SBObject(2))

\* C3: by_path of a string and by_path of the path value of that string give
\* the same result: the same document, or None both.
C3_ByPathStringAsPathValue ==
  (last.op = "list.by_path" /\ last.arg.t = "str") =>
    \A r \in XAPreviewDocumentList_by_path(XAPathValue(last.arg)) :
      last.ret = r.ret

\* The location a lookup by path asks for.
AskedLocation(path) == IF path.t = "str" THEN path.s ELSE path.xa_elem.path

\* The raw path of a document denotes the location l, in any of its forms.
Denotes(raw, l) == raw \in {PyStr(l), PyStr("file://" \o l), NSURL(l)}

\* No document of the collection matches the argument of the lookup.
NoMatch ==
  CASE last.op = "list.by_properties" ->
         \A i \in 1..Len(docs) : DocumentProperties(docs[i]) # last.arg
    [] last.op = "list.by_name" ->
         \A i \in 1..Len(docs) : docs[i].name # last.arg
    [] last.op = "list.by_modified" ->
         \A i \in 1..Len(docs) : docs[i].modified # last.arg
    [] last.op = "list.by_path" ->
         \A i \in 1..Len(docs) : ~Denotes(docs[i].path, AskedLocation(last.arg))

\* C4: a lookup never ends with an exception, and ends with None when no
\* document matches.
C4_NotFoundIsNone ==
  last.op \in Lookups =>
    /\ last.ret.t # "raise"
    /\ NoMatch => last.ret = PyNone

\* C5: print(path, show_prompt) issues one print action; it carries a file
\* URL, that of the path when the path is a string and the URL given
\* otherwise, and the caller's show_prompt.
C5_PrintSendsUrl ==
  last.op = "app.print" =>
    /\ Len(last.log) = 1
    /\ last.log[1].req = "invoke"
    /\ last.log[1].action = "print_printDialog_withProperties_"
    /\ last.log[1].args[1].t = "NSURL"
    /\ last.log[1].args[1] =
         IF last.arg[1].t = "str" THEN NSURL(last.arg[1].s) ELSE last.arg[1]
    /\ last.log[1].args[2] = last.arg[2]

\* print("/x/a.pdf", False): the bridge got the file URL of /x/a.pdf.
C5_Witness ==
  /\ last.op = "app.print"
  /\ last.arg = <<PyStr("/x/a.pdf"), PyBool(FALSE)>>
  /\ last.log[1].args[1] = NSURL("/x/a.pdf")
  /\ last.log[1].args[2] = PyBool(FALSE)

\* C6: save(file_path) issues one save action, whose destination is None
\* for save(None) and the string itself for a string.
C6_SavePassesPath ==
  last.op = "document.save" =>
    /\ Len(last.log) = 1
    /\ last.log[1].req = "invoke"
    /\ last.log[1].action = "saveAs_in_"
    /\ last.log[1].target = SBObject(last.self)
    /\ last.log[1].args[2] = last.arg
    /\ last.arg.t \in {"None", "str"}

\* save("/x/b.pdf"): the bridge got the string.
C6_Witness ==
  /\ last.op = "document.save"
  /\ last.arg = PyStr("/x/b.pdf")
  /\ last.log[1].args[2] = PyStr("/x/b.pdf")

\* The file reference of a raw path of the remote application.
FileReference(raw) == IF raw.t = "str" THEN NSURL(raw.s) ELSE raw

\* C7: the clipboard export of the collection is one file reference for
\* each document, the i-th that of the path of the i-th document; the export
\* of a document handle is the file reference of the document's path.
C7_ClipboardIsFileReferences ==
  /\ last.op = "list.get_clipboard_representation" =>
       /\ Len(last.ret) = Len(docs)
       /\ \A i \in 1..Len(docs) :
            /\ last.ret[i] = FileReference(docs[i].path)
            /\ last.ret[i] = XAPreviewDocument_path(i).ret.xa_elem
  /\ last.op = "document.get_clipboard_representation" =>
       /\ last.ret = FileReference(docs[last.self].path)
       /\ last.ret = XAPreviewDocument_path(last.self).ret.xa_elem

\* The export of two documents with different file references.
C7_Witness ==
  /\ last.op = "list.get_clipboard_representation"
  /\ Len(docs) = 2
  /\ last.ret[1] = NSURL("/x/a.pdf")
  /\ last.ret[2] = NSURL("/x/b.pdf")

\* C8: a projection, and the clipboard export of the collection, issue
\* exactly one request, a batched one, however many documents there are.
C8_OneBatchedRequest ==
  last.op \in Projections \cup {"list.get_clipboard_representation"} =>
    /\ Len(last.log) = 1
    /\ last.log[1].req = "getEach"

\* A projection of more than one document.
C8_Witness ==
  /\ last.op \in Projections
  /\ Len(docs) > 1
  /\ Len(last.ret) = Len(docs)
  /\ Len(last.log) = 1

\* The remote application's value a property read is about.
RemoteValue ==
  CASE last.op = "app.frontmost" -> app.frontmost
    [] last.op = "app.name" -> app.name
    [] last.op = "app.version" -> app.version
    [] last.op = "window.properties" -> WindowProperties
    [] last.op = "window.document" -> XAPreviewDocument(SBObject(win.document))
    [] last.op = "window.floating" -> win.floating
    [] last.op = "window.modal" -> win.modal
    [] last.op = "window.titled" -> win.titled
    [] last.op = "document.properties" -> DocumentProperties(docs[last.self])
    [] last.op = "document.name" -> docs[last.self].name
    [] last.op = "document.path" -> XAPathOf(FileReference(docs[last.self].path))
    [] last.op = "document.modified" -> docs[last.self].modified

Reads ==
  {"app.frontmost", "app.name", "app.version", "window.properties",
   "window.document", "window.floating", "window.modal", "window.titled",
   "document.properties", "document.name", "document.path", "document.modified"}

\* C9: a property read issues one get-attribute request and returns the
\* value the remote application has at the read, whatever was read, written
\* or changed before.
C9_ReadsAreLive ==
  last.op \in Reads =>
    /\ Len(last.log) = 1
    /\ last.log[1].req = "get"
    /\ last.ret = RemoteValue

\* A read of modified that returns True: documents open unmodified, so the
\* remote application changed the attribute before the read.
C9_Witness ==
  /\ last.op = "document.modified"
  /\ last.ret = PyBool(TRUE)

\* C10: window.document = D issues one request, a set-attribute of the
\* window's document carrying D's remote object, and changes nothing but
\* the document the window shows: the open documents and their attributes,
\* the application and the other attributes of the window stay as they were.
C10_SetDocumentFrame ==
  [][last'.op = "window.document=" =>
       /\ last'.log = <<Set(WindowRef, "document", last'.arg.xa_elem)>>
       /\ last'.arg.xa_elem.t = "SBObject"
       /\ docs' = docs
       /\ app' = app
       /\ win' = [win EXCEPT !.document = last'.arg.xa_elem.id]]_vars

\* The window was made to show the second of two open documents.
C10_Witness ==
  /\ last.op = "window.document="
  /\ Len(docs) = 2
  /\ last.arg = XAPreviewDocument(SBObject(2))
  /\ win.document = 2
=============================================================================
